---- MODULE Spec2Model ----
(***************************************************************************)
(* Fridgecipe+ (src/app.py): the response-parsing pipeline of              *)
(* detect_ingredients_with_gpt, generate_recipes_with_gpt and the button   *)
(* handler that chains them.                                               *)
(*                                                                         *)
(* A Python str is a sequence of one-character strings.  The bullet        *)
(* U+2022 is written "u2022".  The alphabet holds no backslash, so a JSON  *)
(* string body never holds an escape sequence.                             *)
(***************************************************************************)
EXTENDS Integers, Sequences, FiniteSets, TLC

VARIABLES client, uploaded_image, servings, pc, msg_content, raw,
          ingredients, path, outcome, recipes_md, calls, sample

\* client          the OpenAI client, "None" without an API key
\* uploaded_image  the image of the uploader or the camera, "None" before
\* servings        the slider
\* pc              the handler's position: idle, detect, obtained (the
\*                 vision call has answered), detected, done, crashed
\* msg_content     completion.choices[0].message.content of the vision call
\* raw, ingredients, recipes_md   the variables of these names
\* path            the parse that produced ingredients
\* outcome         whether detect_ingredients_with_gpt returned or raised
\* calls           the external calls of the current press of the button
\* sample          how msg_content was composed (a JSON array between two
\*                 texts, free text, parts); the program does not read it
vars == <<client, uploaded_image, servings, pc, msg_content, raw,
          ingredients, path, outcome, recipes_md, calls, sample>>

----------------------------------------------------------------------------
(* Characters *)

Space == " "
Tab == "\t"
NL == "\n"
CR == "\r"
Comma == ","
Dash == "-"
Bullet == "u2022"
LBr == "["
RBr == "]"
Quote == "\""
Bang == "!"

\* The characters str.strip() removes when called without an argument.
PyWhitespace == {Space, Tab, NL, CR}

\* The argument of p.strip(" -•").
BulletChars == {Space, Dash, Bullet}

\* json.decoder.WHITESPACE: the characters skipped between JSON tokens.
JsonWhitespace == {Space, Tab, NL, CR}

\* Characters below 0x20, which json.loads refuses inside a string (strict).
ControlChars == {Tab, NL, CR}

UpperCase == {"A", "B"}

\* str.lower() on one character.
LowerChar(c) == CASE c = "A" -> "a" [] c = "B" -> "b" [] OTHER -> c

----------------------------------------------------------------------------
(* Python str methods *)

\* s.lower()
Lower(s) == [i \in 1..Len(s) |-> LowerChar(s[i])]

\* Number of leading characters of s that are in chars.
RECURSIVE LeadIn(_, _)
LeadIn(s, chars) ==
    IF s = <<>> \/ Head(s) \notin chars THEN 0 ELSE 1 + LeadIn(Tail(s), chars)

\* Number of trailing characters of s that are in chars.
RECURSIVE TrailIn(_, _)
TrailIn(s, chars) ==
    IF s = <<>> \/ s[Len(s)] \notin chars THEN 0
    ELSE 1 + TrailIn(SubSeq(s, 1, Len(s) - 1), chars)

\* s.strip(chars): s without its leading and trailing characters in chars.
StripChars(s, chars) ==
    LET a == LeadIn(s, chars)
        t == SubSeq(s, a + 1, Len(s))
    IN  SubSeq(t, 1, Len(t) - TrailIn(t, chars))

\* s.strip()
Strip(s) == StripChars(s, PyWhitespace)

\* s.replace(old, new) for one-character old and new.
Replace(s, old, new) == [i \in 1..Len(s) |-> IF s[i] = old THEN new ELSE s[i]]

\* s.index(c) + 1, or 0 where s.index(c) raises ValueError.
Index(s, c) ==
    IF \E i \in 1..Len(s) : s[i] = c
    THEN CHOOSE i \in 1..Len(s) : s[i] = c /\ \A j \in 1..(i - 1) : s[j] # c
    ELSE 0

\* s.rindex(c) + 1, or 0 where s.rindex(c) raises ValueError.
RIndex(s, c) ==
    IF \E i \in 1..Len(s) : s[i] = c
    THEN CHOOSE i \in 1..Len(s) : s[i] = c /\ \A j \in (i + 1)..Len(s) : s[j] # c
    ELSE 0

\* s.split(sep) for a one-character sep: always at least one piece.
RECURSIVE Split(_, _)
Split(s, sep) ==
    LET k == Index(s, sep)
    IN  IF k = 0 THEN <<s>>
        ELSE <<SubSeq(s, 1, k - 1)>> \o Split(SubSeq(s, k + 1, Len(s)), sep)

\* sep.join(pieces)
RECURSIVE Join(_, _)
Join(pieces, sep) ==
    IF pieces = <<>> THEN <<>>
    ELSE IF Len(pieces) = 1 THEN pieces[1]
    ELSE pieces[1] \o sep \o Join(Tail(pieces), sep)

----------------------------------------------------------------------------
(* json.loads, for the values the alphabet can spell: strings and arrays   *)
(* of them.  A value is [t |-> "str", v |-> characters] or                 *)
(* [t |-> "list", v |-> values]; a parse is [ok, val, next].               *)

JsonFail == [ok |-> FALSE, val |-> [t |-> "str", v |-> <<>>], next |-> 0]

\* First position at or after i that holds no JSON whitespace.
RECURSIVE SkipWs(_, _)
SkipWs(s, i) ==
    IF i <= Len(s) /\ s[i] \in JsonWhitespace THEN SkipWs(s, i + 1) ELSE i

\* py_scanstring: s[i] is the opening quote.
ScanString(s, i) ==
    LET rest == SubSeq(s, i + 1, Len(s))
        k    == Index(rest, Quote)
        body == SubSeq(rest, 1, k - 1)
    IN  IF k = 0 THEN JsonFail
        ELSE IF \E j \in 1..Len(body) : body[j] \in ControlChars THEN JsonFail
        ELSE [ok |-> TRUE, val |-> [t |-> "str", v |-> body], next |-> i + k + 1]

RECURSIVE ScanOnce(_, _)
RECURSIVE JSONArrayItems(_, _, _)

\* JSONArray's loop: at i a value is expected, acc holds the values so far.
JSONArrayItems(s, i, acc) ==
    LET v == ScanOnce(s, i)
        k == SkipWs(s, v.next)
    IN  IF ~v.ok THEN JsonFail
        ELSE IF k > Len(s) THEN JsonFail
        ELSE IF s[k] = RBr
             THEN [ok |-> TRUE,
                   val |-> [t |-> "list", v |-> Append(acc, v.val)],
                   next |-> k + 1]
        ELSE IF s[k] = Comma
             THEN JSONArrayItems(s, SkipWs(s, k + 1), Append(acc, v.val))
        ELSE JsonFail

\* JSONArray: i is the position after the opening bracket.
JSONArray(s, i) ==
    LET j == SkipWs(s, i)
    IN  IF j > Len(s) THEN JsonFail
        ELSE IF s[j] = RBr
             THEN [ok |-> TRUE, val |-> [t |-> "list", v |-> <<>>], next |-> j + 1]
        ELSE JSONArrayItems(s, j, <<>>)

\* scanner.scan_once: a string, an array, or "Expecting value".
ScanOnce(s, i) ==
    IF i > Len(s) THEN JsonFail
    ELSE IF s[i] = Quote THEN ScanString(s, i)
    ELSE IF s[i] = LBr THEN JSONArray(s, i + 1)
    ELSE JsonFail

\* json.loads(s): one value between optional whitespace, nothing after it.
JsonLoads(s) ==
    LET v == ScanOnce(s, SkipWs(s, 1))
    IN  IF ~v.ok THEN JsonFail
        ELSE IF SkipWs(s, v.next) # Len(s) + 1 THEN JsonFail
        ELSE v

\* repr(v) of a parsed value, as str(list) prints its elements.
RECURSIVE PyRepr(_)
RECURSIVE ReprItems(_)
ReprItems(vs) ==
    IF vs = <<>> THEN <<>>
    ELSE IF Len(vs) = 1 THEN PyRepr(vs[1])
    ELSE PyRepr(vs[1]) \o <<Comma, Space>> \o ReprItems(Tail(vs))

PyRepr(v) ==
    IF v.t = "str" THEN <<"'">> \o v.v \o <<"'">>
    ELSE <<LBr>> \o ReprItems(v.v) \o <<RBr>>

\* str(v)
PyStr(v) == IF v.t = "str" THEN v.v ELSE PyRepr(v)

----------------------------------------------------------------------------
(* detect_ingredients_with_gpt: from message content to the list *)

NoneContent == [kind |-> "None"]
StrContent(s) == [kind |-> "str", text |-> s]
ListContent(ps) == [kind |-> "list", parts |-> ps]

\* A content part: with a text attribute, or only its str().
TextPart(s) == [hasText |-> TRUE, text |-> s, repr |-> <<>>]
OtherPart(r) == [hasText |-> FALSE, text |-> <<>>, repr |-> r]

\* getattr(part, "text", None), then str(part) where that is None.
PartText(part) == IF part.hasText THEN part.text ELSE part.repr

\* A join of the parts with a space instead of a newline.
MutPartSeparator == <<Space>>

\* The separator of "\n".join(raw_parts).
PartSeparator == <<NL>>

\* The flattening of message content to one str.
FlattenContent(c) ==
    IF c.kind = "list"
    THEN Join([i \in 1..Len(c.parts) |-> PartText(c.parts[i])], PartSeparator)
    ELSE IF c.kind = "str" THEN c.text
    ELSE <<>>

\* The comprehension without its .lower().
MutNormalizeJson(items) ==
    LET strs == [i \in 1..Len(items) |-> PyStr(items[i])]
        kept == SelectSeq(strs, LAMBDA x : Strip(x) # <<>>)
    IN  [i \in 1..Len(kept) |-> Strip(kept[i])]

\* The comprehension over the parsed array: str, strip, lower, drop blanks.
NormalizeJson(items) ==
    LET strs == [i \in 1..Len(items) |-> PyStr(items[i])]
        kept == SelectSeq(strs, LAMBDA x : Strip(x) # <<>>)
    IN  [i \in 1..Len(kept) |-> Lower(Strip(kept[i]))]

\* The try block: the exception it ends with ("none": it completes) and
\* the list it builds.
PrimaryParse(r) ==
    LET start == Index(r, LBr)
        end   == RIndex(r, RBr)
        json_str == SubSeq(r, start, end)
        loaded == JsonLoads(json_str)
    IN  IF start = 0 \/ end = 0 THEN [exc |-> "ValueError", val |-> <<>>]
        ELSE IF ~loaded.ok THEN [exc |-> "JSONDecodeError", val |-> <<>>]
        ELSE [exc |-> "none", val |-> NormalizeJson(loaded.val.v)]

\* "except json.JSONDecodeError": the ValueError of index and rindex escapes.
MutExceptClause(exc) == exc = "JSONDecodeError"

\* "except Exception": the exceptions the handler catches.
ExceptClause(exc) == exc \in {"ValueError", "JSONDecodeError"}

\* The except block: split on commas and newlines.
FallbackParse(r) ==
    LET parts == Split(Replace(r, NL, Comma), Comma)
        kept  == SelectSeq(parts, LAMBDA p : Strip(p) # <<>>)
    IN  [i \in 1..Len(kept) |-> Lower(StripChars(kept[i], BulletChars))]

\* The function without its final filter.
MutCleanup(l) == l

\* The final filter of empty strings.
Cleanup(l) == SelectSeq(l, LAMBDA i : i # <<>>)

\* The parse of the flattened text: the path taken, whether the function
\* returns or an exception leaves it, and the list returned.
ParseRaw(r) ==
    LET prim == PrimaryParse(r)
    IN  IF prim.exc = "none"
        THEN [path |-> "primary", outcome |-> "returned",
              ingredients |-> Cleanup(prim.val)]
        ELSE IF ExceptClause(prim.exc)
        THEN [path |-> "fallback", outcome |-> "returned",
              ingredients |-> Cleanup(FallbackParse(r))]
        ELSE [path |-> "primary", outcome |-> "raised", ingredients |-> <<>>]

----------------------------------------------------------------------------
(* generate_recipes_with_gpt and the replies of the completion service *)

\* What client.chat.completions.create does: raise, or answer with content.
Raises == [raises |-> TRUE, content |-> NoneContent]
Answers(c) == [raises |-> FALSE, content |-> c]

\* The return values of generate_recipes_with_gpt: each is a str.
WarningMessage == [kind |-> "warning", text |-> <<"client-not-initialised">>]
ErrorMessage == [kind |-> "error", text |-> <<"call-failed">>]
RecipeText(t) == [kind |-> "text", text |-> t]
NoRecipes == [kind |-> "none", text |-> <<>>]

\* The request of the text call: the prompt's two interpolations.
TextRequest(ings, srv) ==
    [op |-> "text",
     arg |-> [ing_str |-> Join(ings, <<Comma, Space>>), servings |-> srv]]

\* generate_recipes_with_gpt(ingredients, servings) with the global client
\* cl and the service behaving as reply: the value returned and the
\* requests sent.
generate_recipes_with_gpt(cl, ings, srv, reply) ==
    IF cl = "None" THEN [ret |-> WarningMessage, sent |-> <<>>]
    ELSE IF reply.raises
    THEN [ret |-> ErrorMessage, sent |-> <<TextRequest(ings, srv)>>]
    ELSE [ret |-> RecipeText(FlattenContent(reply.content)),
          sent |-> <<TextRequest(ings, srv)>>]

\* detect_ingredients_with_gpt without its client check.
MutDetectShortCircuits(cl) == FALSE

\* "if client is None" at the head of detect_ingredients_with_gpt.
DetectShortCircuits(cl) == cl = "None"

\* The vision call outside any try block: its exception leaves the function.
MutVisionCallFailed == [pc |-> "crashed", outcome |-> "raised", ingredients |-> <<>>]

\* The except block around the vision call: report, return [].
VisionCallFailed == [pc |-> "detected", outcome |-> "returned", ingredients |-> <<>>]

\* A handler that generates recipes whatever was detected.
MutShowsError(ings) == FALSE

\* "if not ingredients" in the button handler.
ShowsError(ings) == ings = <<>>

----------------------------------------------------------------------------
(* Inputs *)

MaxLen == 3
MaxElems == 2
MaxParts == 2

ServingsMin == 1
ServingsMax == 6
ServingsDefault == 2

Alphabet ==
    {"a", "A", Space, Tab, NL, CR, Comma, Dash, Bullet, LBr, RBr, Quote, Bang}

SeqsUpTo(S, n) == UNION {[1..k -> S] : k \in 0..n}

\* Every str over Alphabet of at most MaxLen characters.
FreeTexts == SeqsUpTo(Alphabet, MaxLen)

\* Bodies of JSON string literals; the last holds a raw tab, which
\* json.loads refuses.
ElemTexts ==
    { <<>>, <<"a">>, <<"B", Space>>, <<Space>>, <<LBr, "b">>,
      <<"a", Comma, "b", RBr>>, <<Tab, "a">> }

\* Text before and after a JSON array.
Pads == { <<>>, <<"o", "k", ":", Space>>, <<LBr>>, <<RBr>>, <<NL>> }

Separators == { <<Comma>>, <<Comma, Space>> }

\* The text of a JSON array of the strings elems.
Render(elems, sep) ==
    <<LBr>> \o Join([i \in 1..Len(elems) |-> <<Quote>> \o elems[i] \o <<Quote>>], sep)
    \o <<RBr>>

PartChoices ==
    { TextPart(<<>>),
      TextPart(<<LBr, Quote, "a", Quote, Comma>>),
      TextPart(<<Quote, "B", Quote, RBr>>),
      TextPart(<<"a", Comma, Space, "B">>),
      TextPart(<<Dash, Space, "c">>),
      OtherPart(<<"B", "(", ")">>) }

NoSample == [kind |-> "none", pre |-> <<>>, elems |-> <<>>, sep |-> <<>>, post |-> <<>>]
FreeSample == [NoSample EXCEPT !.kind = "free"]
JsonSample(pre, elems, sep, post) ==
    [kind |-> "json", pre |-> pre, elems |-> elems, sep |-> sep, post |-> post]

\* The contents the service answers with in the user flow.
FlowContents ==
    { NoneContent,
      StrContent(<<>>),
      StrContent(<<LBr, RBr>>),
      StrContent(Render(<<<<"a">>, <<"B", Space>>>>, <<Comma, Space>>)),
      StrContent(<<"a", Comma, Space, "B", NL, Dash, Space, "c">>),
      StrContent(<<Dash, Tab>>),
      ListContent(<<>>),
      ListContent(<<TextPart(Render(<<<<"a">>>>, <<Comma>>))>>),
      ListContent(<<OtherPart(<<"B", "(", ")">>)>>) }

TextContents ==
    { NoneContent,
      StrContent(<<"R">>),
      ListContent(<<TextPart(<<"R">>), TextPart(<<"S">>)>>) }

----------------------------------------------------------------------------
(* The extractor applied to one message content *)

InitCommon ==
    /\ client = "OpenAI"
    /\ uploaded_image = "file"
    /\ servings = ServingsDefault
    /\ pc = "obtained"
    /\ raw = <<>>
    /\ ingredients = <<>>
    /\ path = "none"
    /\ outcome = "none"
    /\ recipes_md = NoRecipes
    /\ calls = <<[op |-> "vision", arg |-> "file", result |-> "answered"]>>

InitFree ==
    /\ InitCommon
    /\ sample = FreeSample
    /\ msg_content \in {StrContent(t) : t \in FreeTexts} \cup {NoneContent}

InitJson ==
    /\ InitCommon
    /\ \E pre \in Pads, post \in Pads, sep \in Separators,
          elems \in SeqsUpTo(ElemTexts, MaxElems) :
          /\ sample = JsonSample(pre, elems, sep, post)
          /\ msg_content = StrContent(pre \o Render(elems, sep) \o post)

InitParts ==
    /\ InitCommon
    /\ sample = [NoSample EXCEPT !.kind = "parts"]
    /\ msg_content \in {ListContent(ps) : ps \in SeqsUpTo(PartChoices, MaxParts)}

InitExtract == InitFree \/ InitJson \/ InitParts

\* Lines 115-154: flatten the content, parse it, return the list.
Extract ==
    /\ pc = "obtained"
    /\ LET r == FlattenContent(msg_content)
           p == ParseRaw(r)
       IN  /\ raw' = r
           /\ path' = p.path
           /\ outcome' = p.outcome
           /\ ingredients' = p.ingredients
           /\ pc' = IF p.outcome = "returned" THEN "detected" ELSE "crashed"
    /\ UNCHANGED <<client, uploaded_image, servings, msg_content,
                   recipes_md, calls, sample>>

NextExtract == Extract

SpecExtract == InitExtract /\ [][NextExtract]_vars

----------------------------------------------------------------------------
(* The user flow: the page's widgets and the button handler *)

Init ==
    /\ client \in {"None", "OpenAI"}
    /\ uploaded_image = "None"
    /\ servings = ServingsDefault
    /\ pc = "idle"
    /\ msg_content = NoneContent
    /\ raw = <<>>
    /\ ingredients = <<>>
    /\ path = "none"
    /\ outcome = "none"
    /\ recipes_md = NoRecipes
    /\ calls = <<>>
    /\ sample = NoSample

\* A rerun of the script: nothing of the previous run is kept.
Rerun(at) ==
    /\ pc' = at
    /\ msg_content' = NoneContent
    /\ raw' = <<>>
    /\ ingredients' = <<>>
    /\ path' = "none"
    /\ outcome' = "none"
    /\ recipes_md' = NoRecipes
    /\ calls' = <<>>

Resting == pc \in {"idle", "done", "crashed"}

\* The file uploader or the camera input delivers an image.
Upload ==
    /\ Resting
    /\ uploaded_image' = "file"
    /\ Rerun("idle")
    /\ UNCHANGED <<client, servings, sample>>

\* The servings slider is moved.
SetServings ==
    /\ Resting
    /\ \E s \in ServingsMin..ServingsMax : s # servings /\ servings' = s
    /\ Rerun("idle")
    /\ UNCHANGED <<client, uploaded_image, sample>>

\* The button is pressed: the handler enters detect_ingredients_with_gpt.
Click ==
    /\ Resting
    /\ uploaded_image # "None"
    /\ Rerun("detect")
    /\ UNCHANGED <<client, uploaded_image, servings, sample>>

\* Lines 75-112: the client check and the vision call.
DetectCall ==
    /\ pc = "detect"
    /\ \E reply \in {Raises} \cup {Answers(c) : c \in FlowContents} :
          IF DetectShortCircuits(client)
          THEN /\ pc' = "detected"
               /\ outcome' = "returned"
               /\ ingredients' = <<>>
               /\ UNCHANGED <<msg_content, calls>>
          ELSE IF reply.raises
          THEN /\ pc' = VisionCallFailed.pc
               /\ outcome' = VisionCallFailed.outcome
               /\ ingredients' = VisionCallFailed.ingredients
               /\ calls' = Append(calls, [op |-> "vision", arg |-> uploaded_image,
                                          result |-> "raised"])
               /\ UNCHANGED msg_content
          ELSE /\ pc' = "obtained"
               /\ msg_content' = reply.content
               /\ calls' = Append(calls, [op |-> "vision", arg |-> uploaded_image,
                                          result |-> "answered"])
               /\ UNCHANGED <<outcome, ingredients>>
    /\ UNCHANGED <<client, uploaded_image, servings, raw, path,
                   recipes_md, sample>>

\* Lines 252-253: nothing detected, the handler ends with an error shown.
NoIngredients ==
    /\ pc = "detected"
    /\ ShowsError(ingredients)
    /\ pc' = "done"
    /\ UNCHANGED <<client, uploaded_image, servings, msg_content, raw,
                   ingredients, path, outcome, recipes_md, calls, sample>>

\* Lines 254-272: the ingredients are shown and the recipes generated.
Generate ==
    /\ pc = "detected"
    /\ ~ShowsError(ingredients)
    /\ \E reply \in {Raises} \cup {Answers(c) : c \in TextContents} :
          LET g == generate_recipes_with_gpt(client, ingredients, servings, reply)
          IN  /\ recipes_md' = g.ret
              /\ calls' = calls \o
                    [i \in 1..Len(g.sent) |->
                        [op |-> g.sent[i].op, arg |-> g.sent[i].arg,
                         result |-> IF reply.raises THEN "raised" ELSE "answered"]]
    /\ pc' = "done"
    /\ UNCHANGED <<client, uploaded_image, servings, msg_content, raw,
                   ingredients, path, outcome, sample>>

Next ==
    \/ Upload
    \/ SetServings
    \/ Click
    \/ DetectCall
    \/ Extract
    \/ NoIngredients
    \/ Generate

Spec == Init /\ [][Next]_vars

----------------------------------------------------------------------------
(* Properties of the extractor, under SpecExtract *)

Chars(t) == {t[i] : i \in 1..Len(t)}

Returned == pc = "detected" /\ outcome = "returned"

\* C1: the list returned by detect_ingredients_with_gpt holds no empty
\* string, whichever of the two parses produced it.
C1_NoEmptyEntry ==
    Returned => \A i \in 1..Len(ingredients) : ingredients[i] # <<>>

\* A fallback run in which a piece was stripped to nothing and filtered.
C1_Witness ==
    /\ Returned
    /\ path = "fallback"
    /\ ingredients # <<>>
    /\ \E i \in 1..Len(FallbackParse(raw)) : FallbackParse(raw)[i] = <<>>

\* The elements of a JSON array of strings as the claim normalizes them:
\* trimmed of whitespace, lowercased, the empty ones dropped, in order.
TrimmedLowered(elems) ==
    SelectSeq([i \in 1..Len(elems) |-> Lower(StripChars(elems[i], PyWhitespace))],
              LAMBDA e : e # <<>>)

\* The strings that are bodies of valid JSON string literals.
ValidJsonStrings(elems) ==
    \A i \in 1..Len(elems) : Chars(elems[i]) \cap (ControlChars \cup {Quote}) = {}

\* The payload is a valid JSON array of strings between two texts.
HoldsJsonArray == sample.kind = "json" /\ ValidJsonStrings(sample.elems)

\* C2 as stated: a payload that holds a valid JSON array of strings, with
\* any text around it, yields the array's elements trimmed and lowercased.
C2_AnySurroundingText ==
    (Returned /\ HoldsJsonArray) => ingredients = TrimmedLowered(sample.elems)

\* C2 amended: the same, where the text before the array holds no "[" and
\* the text after it holds no "]"; the result then comes from the primary
\* parse.
C2_NoBracketAround ==
    (Returned /\ HoldsJsonArray
        /\ LBr \notin Chars(sample.pre) /\ RBr \notin Chars(sample.post))
    => (path = "primary" /\ ingredients = TrimmedLowered(sample.elems))

\* Text on both sides of an array of two, one of whose elements is dropped.
C2_Witness ==
    /\ Returned /\ HoldsJsonArray
    /\ sample.pre = <<"o", "k", ":", Space>>
    /\ sample.post = <<NL>>
    /\ sample.elems = << <<"B", Space>>, <<>> >>
    /\ ingredients = << <<"b">> >>

\* The fallback split as the claim states it: newlines become commas, the
\* text is split on commas, each piece loses its surrounding whitespace,
\* "-" and bullets and is lowercased, and the non-empty pieces are kept.
ClaimedFallback(t) ==
    LET pieces == Split(Replace(t, NL, Comma), Comma)
    IN  SelectSeq([i \in 1..Len(pieces) |->
                      Lower(StripChars(pieces[i], PyWhitespace \cup {Dash, Bullet}))],
                  LAMBDA e : e # <<>>)

\* C3: a payload string with neither "[" nor "]" takes the fallback path
\* and yields the pieces of the comma/newline split, each stripped of
\* whitespace, "-" and bullets and lowercased, the empty ones dropped.
C3_FallbackSplit ==
    (Returned /\ msg_content.kind = "str"
        /\ Chars(msg_content.text) \cap {LBr, RBr} = {})
    => (path = "fallback" /\ ingredients = ClaimedFallback(msg_content.text))

\* The punctuation the split is written to remove: the separators and the
\* list markers.
Punctuation == {Comma, Dash, Bullet}

\* C4: a payload that is empty or made only of whitespace and punctuation
\* (commas, "-" and bullets) yields the empty list.
C4_BlankPayloadEmptyList ==
    (Returned /\ msg_content.kind = "str"
        /\ Chars(msg_content.text) \subseteq (PyWhitespace \cup Punctuation))
    => ingredients = <<>>

AllPartsHaveText ==
    /\ msg_content.kind = "list"
    /\ \A i \in 1..Len(msg_content.parts) : msg_content.parts[i].hasText

\* The parts' text fields joined by newlines.
JoinedTexts ==
    Join([i \in 1..Len(msg_content.parts) |-> msg_content.parts[i].text], <<NL>>)

\* C5: for a sequence of content parts with text fields the extractor
\* returns what it returns for the plain string that joins the texts with
\* newlines, on the same path.
C5_FlatteningTransparent ==
    (pc = "detected" /\ AllPartsHaveText)
    => LET plain == ParseRaw(FlattenContent(StrContent(JoinedTexts)))
       IN  /\ ingredients = plain.ingredients
           /\ path = plain.path
           /\ outcome = plain.outcome

\* Two parts that only together spell a JSON array.
C5_Witness ==
    /\ pc = "detected" /\ AllPartsHaveText
    /\ Len(msg_content.parts) = 2
    /\ path = "primary"
    /\ Len(ingredients) = 2

\* C6: every returned entry is trimmed of whitespace of any kind and
\* holds no uppercase letter.
C6_LowercaseTrimmed ==
    Returned =>
        \A i \in 1..Len(ingredients) :
            LET e == ingredients[i]
            IN  /\ e # <<>> => (e[1] \notin PyWhitespace /\ e[Len(e)] \notin PyWhitespace)
                /\ Chars(e) \cap UpperCase = {}

\* C7: no exception leaves the extractor: it always returns a list, and
\* a missing bracket or a JSON error in the primary parse leads to the
\* fallback split.
C7_NoExceptionEscapes ==
    /\ pc # "crashed"
    /\ pc = "detected" =>
          /\ outcome = "returned"
          /\ PrimaryParse(raw).exc # "none" =>
                (path = "fallback" /\ ingredients = Cleanup(FallbackParse(raw)))

\* A content part without a text field, no bracket in the flattened text.
C7_Witness ==
    /\ pc = "detected"
    /\ msg_content.kind = "list"
    /\ \E i \in 1..Len(msg_content.parts) : ~msg_content.parts[i].hasText
    /\ PrimaryParse(raw).exc = "ValueError"
    /\ path = "fallback"
    /\ ingredients # <<>>

----------------------------------------------------------------------------
(* Properties of the user flow, under Spec *)

CallOps == [i \in 1..Len(calls) |-> calls[i].op]

\* C8: a failure of either completion call is caught where it is made:
\* after a failed vision call detect_ingredients_with_gpt returns the
\* empty list, after a failed text call generate_recipes_with_gpt returns
\* an error message, and nothing propagates.
C8_CallFailuresCaught ==
    /\ pc # "crashed"
    /\ \A i \in 1..Len(calls) :
          /\ (calls[i].op = "vision" /\ calls[i].result = "raised")
                => (pc \in {"detected", "done"} /\ outcome = "returned"
                    /\ ingredients = <<>>)
          /\ (calls[i].op = "text" /\ calls[i].result = "raised")
                => (pc = "done" /\ recipes_md = ErrorMessage)

\* The vision call has raised and the handler has ended.
C8_Witness ==
    /\ pc = "done"
    /\ Len(calls) = 1
    /\ calls[1].op = "vision" /\ calls[1].result = "raised"
    /\ ingredients = <<>>

\* C9: without a client no external call is made: the detection returns
\* the empty list, generate_recipes_with_gpt returns its warning whatever
\* it is given, and the handler never generates recipes.
C9_NoClientShortCircuits ==
    client = "None" =>
        /\ calls = <<>>
        /\ pc \notin {"obtained", "crashed"}
        /\ ingredients = <<>>
        /\ recipes_md = NoRecipes
        /\ pc \in {"detected", "done"} => outcome = "returned"
        /\ \A reply \in {Raises} \cup {Answers(c) : c \in TextContents},
              ings \in {<<>>, << <<"a">> >>, << <<"a">>, <<"b">> >>} :
              generate_recipes_with_gpt(client, ings, servings, reply)
                  = [ret |-> WarningMessage, sent |-> <<>>]

\* The handler has run to its end without a client.
C9_Witness == client = "None" /\ pc = "done" /\ outcome = "returned"

\* C10: within one press of the button the external calls are a prefix
\* of <<vision, text>>; the text call is made only once the extraction
\* has returned a non-empty list, and never after an empty one.
C10_CallsInOrder ==
    /\ CallOps \in {<<>>, <<"vision">>, <<"vision", "text">>}
    /\ (\E i \in 1..Len(calls) : calls[i].op = "text")
          => /\ pc = "done"
             /\ calls[1].result = "answered"
             /\ path \in {"primary", "fallback"}
             /\ outcome = "returned"
             /\ ingredients # <<>>
    /\ (pc = "done" /\ ingredients = <<>>) => CallOps \in {<<>>, <<"vision">>}

\* Both calls were made, in order.
C10_Witness ==
    /\ pc = "done"
    /\ CallOps = <<"vision", "text">>
    /\ recipes_md.kind = "text"

====
